---------------------------- MODULE Spec2Model ----------------------------
(***************************************************************************)
(* Model of the ARM expression parser and template decoder of src/lib.rs.  *)
(*                                                                         *)
(* A Rust &str is modelled as a sequence of one-character strings.  Only   *)
(* ASCII text is modelled, so byte offsets and character positions agree.  *)
(* Offsets keep the source's 0-based, end-exclusive convention.            *)
(*                                                                         *)
(* The outcome of a call is one of                                         *)
(*   [kind |-> "Ok", expr |-> e]      the function returned Ok(e)          *)
(*   [kind |-> "Err", error |-> m]    the function returned Err(m)         *)
(*   [kind |-> "Panic", msg |-> m]    the thread panicked                  *)
(***************************************************************************)
EXTENDS Integers, Sequences, FiniteSets, TLC

(***************************************************************************)
(* Bounds of the explored input space.                                     *)
(***************************************************************************)
MaxRawLen == 3
MaxNameLen == 3
MaxArgs == 3
MaxNest == 66

(***************************************************************************)
(* Text constants of the source.                                           *)
(***************************************************************************)
BracketVariablesPrefix == <<"[", "v", "a", "r", "i", "a", "b", "l", "e", "s", "(">>
VariablesPrefix == <<"v", "a", "r", "i", "a", "b", "l", "e", "s", "(">>
BracketParametersPrefix == <<"[", "p", "a", "r", "a", "m", "e", "t", "e", "r", "s", "(">>
ParametersPrefix == <<"p", "a", "r", "a", "m", "e", "t", "e", "r", "s", "(">>

Txt_format == <<"f", "o", "r", "m", "a", "t">>
Txt_concat == <<"c", "o", "n", "c", "a", "t">>
Txt_copyIndex == <<"c", "o", "p", "y", "I", "n", "d", "e", "x">>
Txt_resourceId == <<"r", "e", "s", "o", "u", "r", "c", "e", "I", "d">>
Txt_if == <<"i", "f">>
Txt_resourceGroup == <<"r", "e", "s", "o", "u", "r", "c", "e", "G", "r", "o", "u", "p">>

(***************************************************************************)
(* Outcomes.                                                               *)
(***************************************************************************)
Pending == [kind |-> "Pending"]
Ok(e) == [kind |-> "Ok", expr |-> e]
Err(e) == [kind |-> "Err", error |-> e]
Panic(m) == [kind |-> "Panic", msg |-> m]

(***************************************************************************)
(* The AST: enum ArmExpression, enum LiteralValue, struct                  *)
(* FunctionExpression, enum FunctionName.                                  *)
(***************************************************************************)
ArmExpression_None == [tag |-> "None"]
ArmExpression_Variable(inner) == [tag |-> "Variable", name |-> inner]
ArmExpression_Parameter(inner) == [tag |-> "Parameter", name |-> inner]
LiteralValue_String(s) == [tag |-> "String", s |-> s]
ArmExpression_Literal(v) == [tag |-> "Literal", value |-> v]
FunctionExpression(name, arguments) ==
    [tag |-> "Function", name |-> name, arguments |-> arguments]
FunctionName == {"Concat", "ResourceId", "CopyIndex", "Format", "If", "ResourceGroup"}

(***************************************************************************)
(* str primitives used by the parser.                                      *)
(***************************************************************************)
NotFound == 0 - 1
WhiteSpace == {" ", "\t", "\n", "\r"}

\* str::starts_with
starts_with(s, p) ==
    /\ Len(p) <= Len(s)
    /\ \A i \in 1..Len(p) : s[i] = p[i]

\* &s[a..b]: panics unless a <= b <= len
slice(s, a, b) ==
    IF 0 <= a /\ a <= b /\ b <= Len(s)
    THEN [ok |-> TRUE, s |-> SubSeq(s, a + 1, b)]
    ELSE [ok |-> FALSE]

\* str::find of a one-character pattern: 0-based index of the first match
find(s, c) ==
    IF \E i \in 1..Len(s) : s[i] = c
    THEN (CHOOSE i \in 1..Len(s) : s[i] = c /\ \A j \in 1..(i - 1) : s[j] # c) - 1
    ELSE NotFound

\* str::rfind of a one-character pattern: 0-based index of the last match
rfind(s, c) ==
    IF \E i \in 1..Len(s) : s[i] = c
    THEN (CHOOSE i \in 1..Len(s) : s[i] = c /\ \A j \in (i + 1)..Len(s) : s[j] # c) - 1
    ELSE NotFound

\* str::trim
trim(s) ==
    IF \A i \in 1..Len(s) : s[i] \in WhiteSpace
    THEN <<>>
    ELSE LET first == CHOOSE i \in 1..Len(s) :
                          s[i] \notin WhiteSpace /\ \A j \in 1..(i - 1) : s[j] \in WhiteSpace
             last == CHOOSE i \in 1..Len(s) :
                          s[i] \notin WhiteSpace /\ \A j \in (i + 1)..Len(s) : s[j] \in WhiteSpace
         IN  SubSeq(s, first, last)

\* str::split(","): every comma is a boundary; the empty string gives one empty piece
RECURSIVE split(_)
split(s) ==
    LET i == find(s, ",")
    IN  IF i = NotFound
        THEN <<s>>
        ELSE <<SubSeq(s, 1, i)>> \o split(SubSeq(s, i + 2, Len(s)))

(***************************************************************************)
(* parse_expression, branch by branch.                                     *)
(***************************************************************************)
\* line 25: let inner = &value[12..value.len() - 3];
bracket_variables_inner(value) == slice(value, 12, Len(value) - 3)

\* line 29: let inner = &value[11..value.len() - 2];
variables_inner(value) == slice(value, 11, Len(value) - 2)

\* the slice of line 33 taken as if the name were not quoted
bracket_parameters_inner_unquoted(value) == slice(value, 12, Len(value) - 2)

\* line 33: let inner = &value[13..value.len() - 3];
bracket_parameters_inner(value) == slice(value, 13, Len(value) - 3)

\* line 37: let inner = &value[12..value.len() - 2];
parameters_inner(value) == slice(value, 12, Len(value) - 2)

\* lines 54-62: the match on function_name_str; "todo" is the arm `_ => todo!()`
function_name(function_name_str) ==
    CASE function_name_str = Txt_format -> "Format"
      [] function_name_str = Txt_concat -> "Concat"
      [] function_name_str = Txt_copyIndex -> "CopyIndex"
      [] function_name_str = Txt_resourceId -> "ResourceId"
      [] function_name_str = Txt_if -> "If"
      [] function_name_str = Txt_resourceGroup -> "ResourceGroup"
      [] OTHER -> "todo"

\* line 46: args_str.split(",").map(|s| s.trim()).collect()
split_args(args_str) ==
    LET pieces == split(args_str)
    IN  [i \in 1..Len(pieces) |-> trim(pieces[i])]

\* lines 70-72: value[1..value.len() - 1]
quoted_inner(value) == slice(value, 1, Len(value) - 1)

\* lines 22-74: the arm of `match value` that is taken, the first whose guard holds
match_arm(value) ==
    IF value = <<>> THEN "is_empty"
    ELSE IF starts_with(value, BracketVariablesPrefix) THEN "[variables("
    ELSE IF starts_with(value, VariablesPrefix) THEN "variables("
    ELSE IF starts_with(value, BracketParametersPrefix) THEN "[parameters("
    ELSE IF starts_with(value, ParametersPrefix) THEN "parameters("
    ELSE IF starts_with(value, <<"[">>) THEN "["
    ELSE IF starts_with(value, <<"'">>) THEN "'"
    ELSE "_"

\* lines 41-45: the panic raised before any argument is parsed, "none" if there is none
function_panic(value) ==
    LET first_opening_parenthesis == find(value, "(")
        last_closing_parenthesis == rfind(value, ")")
    IN  IF first_opening_parenthesis = NotFound THEN "opening parenthesis"
        ELSE IF last_closing_parenthesis = NotFound THEN "closing bracket"
        ELSE IF ~slice(value, 1, first_opening_parenthesis).ok THEN "slice index"
        ELSE IF ~slice(value, first_opening_parenthesis + 1, last_closing_parenthesis).ok
        THEN "slice index"
        ELSE "none"

\* line 44: let function_name_str = &value[1..first_opening_parenthesis];
function_name_str(value) == slice(value, 1, find(value, "(")).s

\* line 45: let args_str = &value[first_opening_parenthesis + 1..last_closing_parenthesis];
args_str(value) == slice(value, find(value, "(") + 1, rfind(value, ")")).s

RECURSIVE parse_expression(_)
RECURSIVE parsed_args(_, _)

\* lines 49-52: the arguments are parsed left to right; the first panic unwinds
\* the whole call.  Gives [kind |-> "Ok", list |-> <<...>>] or a Panic.
parsed_args(args, i) ==
    IF i > Len(args)
    THEN [kind |-> "Ok", list |-> <<>>]
    ELSE LET head == parse_expression(args[i])
             rest == parsed_args(args, i + 1)
         IN  CASE head.kind # "Ok" -> head
               [] head.kind = "Ok" /\ rest.kind # "Ok" -> rest
               [] OTHER -> [kind |-> "Ok", list |-> <<head.expr>> \o rest.list]

\* lines 40-68: the arm `_ if value.starts_with("[")`
parse_function(value) ==
    IF function_panic(value) # "none"
    THEN Panic(function_panic(value))
    ELSE LET parsed == parsed_args(split_args(args_str(value)), 1)
             name == function_name(function_name_str(value))
         IN  CASE parsed.kind # "Ok" -> parsed
               [] parsed.kind = "Ok" /\ name = "todo" -> Panic("not yet implemented")
               [] OTHER -> Ok(FunctionExpression(name, parsed.list))

quoted_literal(s) == ArmExpression_Literal(LiteralValue_String(s))

\* lines 17-78
parse_expression(value) ==
    LET arm == match_arm(value)
    IN  CASE arm = "is_empty" -> Ok(ArmExpression_None)
          [] arm = "[variables(" ->
                LET inner == bracket_variables_inner(value)
                IN  IF inner.ok THEN Ok(ArmExpression_Variable(inner.s))
                                ELSE Panic("slice index")
          [] arm = "variables(" ->
                LET inner == variables_inner(value)
                IN  IF inner.ok THEN Ok(ArmExpression_Variable(inner.s))
                                ELSE Panic("slice index")
          [] arm = "[parameters(" ->
                LET inner == bracket_parameters_inner(value)
                IN  IF inner.ok THEN Ok(ArmExpression_Parameter(inner.s))
                                ELSE Panic("slice index")
          [] arm = "parameters(" ->
                LET inner == parameters_inner(value)
                IN  IF inner.ok THEN Ok(ArmExpression_Parameter(inner.s))
                                ELSE Panic("slice index")
          [] arm = "[" -> parse_function(value)
          [] arm = "'" ->
                LET inner == quoted_inner(value)
                IN  IF inner.ok THEN Ok(quoted_literal(inner.s))
                                ELSE Panic("slice index")
          [] arm = "_" -> Ok(quoted_literal(value))

(***************************************************************************)
(* The template model and its derived Deserialize implementations.         *)
(*                                                                         *)
(* A JSON object is a record of its keys, each [present |-> FALSE] or      *)
(* [present |-> TRUE, v |-> the value]; keys the structs do not declare    *)
(* are skipped by the derived code and are not modelled.  A JSON map is a  *)
(* function from its keys, visited in the order of MapKeys.  An Option is  *)
(* None_ or Some(x).                                                       *)
(***************************************************************************)
None_ == [some |-> FALSE]
Some(x) == [some |-> TRUE, v |-> x]
Absent == [present |-> FALSE]
Present(x) == [present |-> TRUE, v |-> x]
Decoded(t) == [kind |-> "Ok", v |-> t]
MissingField(name) == Err([tag |-> "missing field", field |-> name])

MapKeys == <<"functionAppName", "location">>

\* the first outcome of a sequence that is not Ok, [kind |-> "Ok"] if there is none
first_failure(outcomes) ==
    IF \A i \in 1..Len(outcomes) : outcomes[i].kind = "Ok"
    THEN [kind |-> "Ok"]
    ELSE outcomes[CHOOSE i \in 1..Len(outcomes) :
                      /\ outcomes[i].kind # "Ok"
                      /\ \A j \in 1..(i - 1) : outcomes[j].kind = "Ok"]

\* lines 79-104: Deserialize for ArmExpression, deserialize_str -> visit_str
deserialize_expression(text) ==
    LET r == parse_expression(text)
    IN  IF r.kind = "Ok" THEN Decoded(r.expr) ELSE r

\* an Option<T> field whose key is present: Some of the decoded value
some_of(outcome) ==
    IF outcome.kind = "Ok" THEN Decoded(Some(outcome.v)) ELSE outcome

\* a BTreeMap<String, T> from the outcomes of its entries, which are decoded
\* in document order: the first failure ends the decoding
collect_map(outcomes) ==
    LET keys == SelectSeq(MapKeys, LAMBDA k : k \in DOMAIN outcomes)
        failure == first_failure([i \in 1..Len(keys) |-> outcomes[keys[i]]])
    IN  IF failure.kind # "Ok"
        THEN failure
        ELSE Decoded([k \in DOMAIN outcomes |-> outcomes[k].v])

\* a Vec<T> from the outcomes of its elements, which are decoded in order
collect_seq(outcomes) ==
    IF first_failure(outcomes).kind # "Ok"
    THEN first_failure(outcomes)
    ELSE Decoded([i \in 1..Len(outcomes) |-> outcomes[i].v])

\* lines 146-151: struct ArmParameter { type, defaultValue }; an absent
\* defaultValue gives None, an absent type is reported once the object is read
deserialize_ArmParameter(object) ==
    LET default_value == IF object.defaultValue.present
                         THEN some_of(deserialize_expression(object.defaultValue.v))
                         ELSE Decoded(None_)
    IN  CASE default_value.kind # "Ok" -> default_value
          [] default_value.kind = "Ok" /\ ~object.type.present -> MissingField("type")
          [] OTHER -> Decoded([type |-> object.type.v, default_value |-> default_value.v])

\* lines 154-161: struct ArmResource { name, type, apiVersion, depends_on };
\* the objects modelled hold name, type and apiVersion and no depends_on key
deserialize_ArmResource(object) ==
    LET name == deserialize_expression(object.name)
    IN  IF name.kind # "Ok" THEN name
        ELSE Decoded([name |-> name.v, type |-> object.type,
                      api_version |-> object.apiVersion, depends_on |-> None_])

\* lines 164-168: struct ArmOutput { name, value }
deserialize_ArmOutput(object) ==
    LET v == deserialize_expression(object.value)
    IN  IF v.kind # "Ok" THEN v ELSE Decoded([name |-> object.name, value |-> v.v])

\* line 139: BTreeMap<String, ArmParameter>
deserialize_parameters(map) ==
    collect_map([k \in DOMAIN map |-> deserialize_ArmParameter(map[k])])

\* line 140: BTreeMap<String, ArmExpression>
deserialize_variables(map) ==
    collect_map([k \in DOMAIN map |-> deserialize_expression(map[k])])

\* line 141: Vec<ArmResource>
deserialize_resources(seq) ==
    collect_seq([i \in 1..Len(seq) |-> deserialize_ArmResource(seq[i])])

\* line 142: Vec<ArmOutput>
deserialize_outputs(seq) ==
    collect_seq([i \in 1..Len(seq) |-> deserialize_ArmOutput(seq[i])])

\* the outcome for a required field: an absent key is reported once the whole
\* object has been read
missing_resources(field) ==
    IF field.present THEN [kind |-> "Ok"] ELSE MissingField("resources")

\* lines 137-143: struct ArmTemplate { parameters, variables, resources, outputs }
deserialize_ArmTemplate(object) ==
    LET parameters == IF object.parameters.present
                      THEN some_of(deserialize_parameters(object.parameters.v))
                      ELSE Decoded(None_)
        variables == IF object.variables.present
                     THEN some_of(deserialize_variables(object.variables.v))
                     ELSE Decoded(None_)
        resources == IF object.resources.present
                     THEN deserialize_resources(object.resources.v)
                     ELSE [kind |-> "Ok"]
        outputs == IF object.outputs.present
                   THEN some_of(deserialize_outputs(object.outputs.v))
                   ELSE Decoded(None_)
        failure == first_failure(<<parameters, variables, resources, outputs,
                                   missing_resources(object.resources)>>)
    IN  IF failure.kind # "Ok"
        THEN failure
        ELSE Decoded([parameters |-> parameters.v, variables |-> variables.v,
                      resources |-> resources.v, outputs |-> outputs.v])

(***************************************************************************)
(* State.                                                                  *)
(*   input     the structured description of the text handed to the parser *)
(*   value     the &str given to visit_str                                 *)
(*   result    the outcome of visit_str, Pending before the call           *)
(*   frames    the activations of parse_expression's function arm that are *)
(*             on the call stack, outermost first, when the call is run    *)
(*             step by step; each holds its value, its trimmed argument    *)
(*             texts and the arguments parsed so far                       *)
(*   document  the JSON document given to the decoder                      *)
(*   template  the outcome of decoding it, Pending before the call         *)
(***************************************************************************)
VARIABLES input, value, result, frames, document, template

vars == <<input, value, result, frames, document, template>>

\* lines 93-98: ArmExpressionVisitor::visit_str
visit_str ==
    /\ result = Pending
    /\ input.form # "document"
    /\ input.form # "nested"
    /\ result' = parse_expression(value)
    /\ UNCHANGED <<input, value, frames, document, template>>

\* line 189: serde_json::from_reader::<_, ArmTemplate>
from_reader ==
    /\ template = Pending
    /\ input.form = "document"
    /\ template' = deserialize_ArmTemplate(document)
    /\ UNCHANGED <<input, value, result, frames, document>>

(***************************************************************************)
(* parse_expression run one activation at a time.  An activation of an arm *)
(* other than the function arm makes no recursive call, so its outcome is  *)
(* parse_expression's; an activation of the function arm (lines 40-68)     *)
(* stays on the stack while its arguments are parsed.                      *)
(***************************************************************************)
Frame(text) ==
    [value |-> text, args |-> split_args(args_str(text)), parsed_args |-> <<>>]

\* the activation of parse_expression(text) returns or panics without recursing
returns_at_once(text) == match_arm(text) # "[" \/ function_panic(text) # "none"

\* the innermost activation hands back `expr` (line 51 in its caller, or visit_str)
hand_back(expr) ==
    IF Len(frames) = 1
    THEN /\ result' = Ok(expr)
         /\ frames' = <<>>
    ELSE /\ frames' = [SubSeq(frames, 1, Len(frames) - 1)
                          EXCEPT ![Len(frames) - 1].parsed_args = Append(@, expr)]
         /\ UNCHANGED result

\* a panic unwinds every activation
unwind(panic) ==
    /\ result' = panic
    /\ frames' = <<>>

\* lines 93-98: visit_str calls parse_expression(value)
visit_str_call ==
    /\ result = Pending
    /\ frames = <<>>
    /\ input.form = "nested"
    /\ IF returns_at_once(value)
       THEN /\ result' = parse_expression(value)
            /\ UNCHANGED frames
       ELSE /\ frames' = <<Frame(value)>>
            /\ UNCHANGED result
    /\ UNCHANGED <<input, value, document, template>>

\* line 51: the innermost activation parses its next argument
parse_argument ==
    /\ frames # <<>>
    /\ LET top == frames[Len(frames)]
       IN  /\ Len(top.parsed_args) < Len(top.args)
           /\ LET arg == top.args[Len(top.parsed_args) + 1]
              IN  IF returns_at_once(arg)
                  THEN LET outcome == parse_expression(arg)
                       IN  IF outcome.kind = "Ok"
                           THEN /\ frames' = [frames EXCEPT ![Len(frames)].parsed_args =
                                                                Append(@, outcome.expr)]
                                /\ UNCHANGED result
                           ELSE unwind(outcome)
                  ELSE /\ frames' = Append(frames, Frame(arg))
                       /\ UNCHANGED result
    /\ UNCHANGED <<input, value, document, template>>

\* lines 54-67: every argument is parsed; the function name is matched and the
\* activation returns
return_function ==
    /\ frames # <<>>
    /\ LET top == frames[Len(frames)]
           name == function_name(function_name_str(top.value))
       IN  /\ Len(top.parsed_args) = Len(top.args)
           /\ IF name = "todo"
              THEN unwind(Panic("not yet implemented"))
              ELSE hand_back(FunctionExpression(name, top.parsed_args))
    /\ UNCHANGED <<input, value, document, template>>

(***************************************************************************)
(* The texts handed to the parser.  Every text is described by a record    *)
(* `input` and rendered to the string `value` the parser receives.         *)
(***************************************************************************)
SeqsUpTo(S, n) == UNION {[1..k -> S] : k \in 0..n}

RawChars == {"[", "(", ")", "'", "a"}
NameChars == {"f", "o", "'"}
Prefixes ==
    {BracketVariablesPrefix, VariablesPrefix, BracketParametersPrefix, ParametersPrefix}

Txt_notAFunction == <<"n", "o", "t", "A", "F", "u", "n", "c", "t", "i", "o", "n">>
KnownFunctionTexts ==
    {Txt_format, Txt_concat, Txt_copyIndex, Txt_resourceId, Txt_if, Txt_resourceGroup}
FunctionTexts == KnownFunctionTexts \cup {Txt_notAFunction}

Arg_a == <<"'", "a", "'">>
Arg_xy == <<"'", "x", ",", "y", "'">>
Arg_fmt == <<"'", "{", "0", "}", ",", "{", "1", "}", "'">>
Arg_1 == <<"1">>
Arg_param_b == <<"p", "a", "r", "a", "m", "e", "t", "e", "r", "s", "(", "'", "b", "'", ")">>
Arg_concat_bc == <<"c", "o", "n", "c", "a", "t", "(", "'", "b", "'", ",", "'", "c", "'", ")">>
\* arguments whose text holds a comma inside a quoted string or a nested call
CommaArgTexts == {Arg_xy, Arg_fmt, Arg_concat_bc}
ArgTexts == {Arg_a, Arg_1, Arg_param_b} \cup CommaArgTexts

NumberTokens == {<<"1">>, <<"1", ".", "5">>, <<"-", "2">>}
BooleanTokens == {<<"t", "r", "u", "e">>, <<"T", "R", "U", "E">>, <<"F", "a", "l", "s", "e">>}

RawInputs ==
    {[form |-> "raw", text |-> t] : t \in SeqsUpTo(RawChars, MaxRawLen)}
    \cup {[form |-> "raw", text |-> p \o t] : p \in Prefixes, t \in SeqsUpTo(RawChars, 1)}
ReferenceInputs ==
    [form : {"reference"}, keyword : {"parameters", "variables"},
     bracketed : BOOLEAN, quoted : BOOLEAN, name : SeqsUpTo(NameChars, MaxNameLen)]
CallInputs ==
    [form : {"call"}, function : FunctionTexts,
     args : SeqsUpTo(ArgTexts, MaxArgs), separator : {<<",">>, <<",", " ">>}]
QuotedInputs ==
    [form : {"quoted"}, s : SeqsUpTo(NameChars, MaxNameLen), closed : BOOLEAN]
BareInputs ==
    {[form |-> "bare", token |-> t, type |-> "Number"] : t \in NumberTokens}
    \cup {[form |-> "bare", token |-> t, type |-> "Boolean"] : t \in BooleanTokens}
Inputs == RawInputs \cup ReferenceInputs \cup CallInputs \cup QuotedInputs \cup BareInputs

RECURSIVE Join(_, _)
Join(texts, separator) ==
    IF texts = <<>> THEN <<>>
    ELSE IF Len(texts) = 1 THEN texts[1]
    ELSE texts[1] \o separator \o Join(Tail(texts), separator)

\* the single-quoted rendering of s: each embedded quote doubled
RECURSIVE Escape(_)
Escape(s) ==
    IF s = <<>> THEN <<>>
    ELSE (IF Head(s) = "'" THEN <<"'", "'">> ELSE <<Head(s)>>) \o Escape(Tail(s))

\* the text between the parentheses of a reference
TextBetweenParentheses(in) ==
    IF in.quoted THEN <<"'">> \o in.name \o <<"'">> ELSE in.name

Render(in) ==
    CASE in.form = "raw" -> in.text
      [] in.form = "reference" ->
            (IF in.bracketed THEN <<"[">> ELSE <<>>)
            \o (IF in.keyword = "parameters" THEN ParametersPrefix ELSE VariablesPrefix)
            \o TextBetweenParentheses(in) \o <<")">>
            \o (IF in.bracketed THEN <<"]">> ELSE <<>>)
      [] in.form = "call" ->
            <<"[">> \o in.function \o <<"(">> \o Join(in.args, in.separator) \o <<")", "]">>
      [] in.form = "quoted" ->
            <<"'">> \o Escape(in.s) \o (IF in.closed THEN <<"'">> ELSE <<>>)
      [] in.form = "bare" -> in.token

NoDocument ==
    [parameters |-> Absent, variables |-> Absent, resources |-> Absent, outputs |-> Absent]

Init ==
    /\ input \in Inputs
    /\ value = Render(input)
    /\ result = Pending
    /\ frames = <<>>
    /\ document = NoDocument
    /\ template = Pending

Next == visit_str

Spec == Init /\ [][Next]_vars

Parsed == result # Pending

(***************************************************************************)
(* Nested calls: the text is wrapped in one more bracketed call at a time. *)
(***************************************************************************)
Nest ==
    /\ result = Pending
    /\ frames = <<>>
    /\ input.form = "nested"
    /\ input.depth < MaxNest
    /\ input' = [input EXCEPT !.depth = @ + 1]
    /\ value' = <<"[">> \o input.function \o <<"(">> \o value \o <<")", "]">>
    /\ UNCHANGED <<result, frames, document, template>>

InitNest ==
    /\ input \in [form : {"nested"}, depth : {0}, function : {Txt_concat, Txt_notAFunction}]
    /\ value = Arg_a
    /\ result = Pending
    /\ frames = <<>>
    /\ document = NoDocument
    /\ template = Pending

NextNest == Nest \/ visit_str_call \/ parse_argument \/ return_function

SpecNest == InitNest /\ [][NextNest]_vars

(***************************************************************************)
(* Documents given to the decoder.                                         *)
(***************************************************************************)
Txt_string == <<"s", "t", "r", "i", "n", "g">>
DefaultValueTexts == {<<>>, Arg_a, BracketVariablesPrefix}
ParameterObjects ==
    [type : {Absent, Present(Txt_string)},
     defaultValue : {Absent} \cup {Present(t) : t \in DefaultValueTexts}]
MapsTo(Values) ==
    UNION {[keys -> Values] : keys \in SUBSET {MapKeys[i] : i \in 1..Len(MapKeys)}}
ResourceObject == [name |-> Arg_param_b, type |-> <<"t">>, apiVersion |-> <<"v">>]
OutputObject == [name |-> <<"o">>, value |-> Arg_a]
Documents ==
    [parameters : {Absent} \cup {Present(m) : m \in MapsTo(ParameterObjects)},
     variables : {Absent} \cup {Present(m) : m \in MapsTo({Arg_a})},
     resources : {Absent, Present(<<>>), Present(<<ResourceObject>>)},
     outputs : {Absent, Present(<<>>), Present(<<OutputObject>>)}]

InitDecode ==
    /\ input = [form |-> "document"]
    /\ value = <<>>
    /\ result = Pending
    /\ frames = <<>>
    /\ document \in Documents
    /\ template = Pending

NextDecode == from_reader

SpecDecode == InitDecode /\ [][NextDecode]_vars

(***************************************************************************)
(* The claims.  The typed errors below are the ones the specification      *)
(* names; the source constructs none of them.                              *)
(***************************************************************************)
UnknownFunction(name) == [tag |-> "UnknownFunction", name |-> name]
UnterminatedString == [tag |-> "UnterminatedString"]
RecursionLimit == [tag |-> "RecursionLimit"]

IsKnownCall == input.form = "call" /\ input.function \in KnownFunctionTexts

Referenced(keyword, name) ==
    IF keyword = "parameters" THEN ArmExpression_Parameter(name)
                              ELSE ArmExpression_Variable(name)

\* C1: parse_expression is total: whatever the input string, the call ends
\* in a returned expression or a typed error and never in a panic.
C1_Total == result.kind \in {"Pending", "Ok", "Err"}

\* C2: only top-level commas are argument boundaries: a call whose arguments
\* hold commas inside a quoted string or a nested call parses to as many
\* arguments as it has top-level arguments.
C2_TopLevelCommas ==
    (/\ Parsed
     /\ IsKnownCall
     /\ \E i \in 1..Len(input.args) : input.args[i] \in CommaArgTexts)
    => /\ result.kind = "Ok"
       /\ result.expr.tag = "Function"
       /\ Len(result.expr.arguments) = Len(input.args)

\* C3 as stated: parameters(n), [parameters(n)], variables(n) and
\* [variables(n)] give Parameter(n) / Variable(n) with n exactly the text
\* between the parentheses.
C3_TextBetweenParentheses ==
    (Parsed /\ input.form = "reference")
    => result = Ok(Referenced(input.keyword, TextBetweenParentheses(input)))

\* C3 as amended: when the name is written in single quotes, parameters('n')
\* and [parameters('n')] both give Parameter(n), variables('n') and
\* [variables('n')] both give Variable(n), n being the text between the quotes.
C3_QuotedName ==
    (Parsed /\ input.form = "reference" /\ input.quoted)
    => result = Ok(Referenced(input.keyword, input.name))

\* C3 witness: [parameters('foo')] has been parsed to Parameter("foo").
C3_Witness ==
    /\ input.form = "reference"
    /\ input.quoted /\ input.bracketed /\ input.keyword = "parameters"
    /\ input.name = <<"f", "o", "o">>
    /\ value = BracketParametersPrefix \o <<"'", "f", "o", "o", "'", ")", "]">>
    /\ result = Ok(ArmExpression_Parameter(<<"f", "o", "o">>))

\* C4: a bracket-wrapped call of a function outside the known set yields the
\* error UnknownFunction carrying the name.
C4_UnknownFunction ==
    (Parsed /\ input.form = "call" /\ input.function \notin KnownFunctionTexts)
    => result = Err(UnknownFunction(input.function))

\* C5: there is a fixed limit on the recursion depth: the parser never has more
\* activations of the function arm on the stack than the limit, and an input
\* nested deeper than the limit yields the error RecursionLimit.  A limit that
\* serves every state serves each one, so a state that no limit below MaxNest
\* serves refutes every such limit.
C5_RecursionBounded ==
    \E limit \in 0..(MaxNest - 1) :
        /\ Len(frames) <= limit
        /\ (Parsed /\ input.form = "nested" /\ input.depth > limit)
           => result = Err(RecursionLimit)

\* C6: a call of a known function with n >= 1 arguments a1, ..., an parses to
\* Function(f, <<parse(a1), ..., parse(an)>>), in order, whitespace trimmed.
C6_ArgumentsInOrder ==
    (Parsed /\ IsKnownCall /\ Len(input.args) >= 1)
    => result = Ok(FunctionExpression(
                       function_name(input.function),
                       [i \in 1..Len(input.args) |-> parse_expression(input.args[i]).expr]))

\* C7: a bare token that reads as a number parses to Literal(Number), one that
\* is true or false in any letter case to Literal(Boolean), never to
\* Literal(String).
C7_TypedBareTokens ==
    (Parsed /\ input.form = "bare")
    => /\ result.kind = "Ok"
       /\ result.expr.tag = "Literal"
       /\ result.expr.value.tag = input.type

\* C8: the single-quoted rendering of a string s, embedded quotes doubled,
\* parses to Literal(String(s)); a quoted token that is never closed yields
\* UnterminatedString.
C8_QuotedRoundTrip ==
    (Parsed /\ input.form = "quoted")
    => IF input.closed
       THEN result = Ok(quoted_literal(input.s))
       ELSE result = Err(UnterminatedString)

\* C9: a document with a parameters map and no variables, resources or outputs
\* decodes to a template holding the declared parameters (default_value None),
\* an empty variables mapping, no resources and outputs None.
C9_AbsentSections ==
    (/\ template # Pending
     /\ document.parameters.present
     /\ ~document.variables.present
     /\ ~document.resources.present
     /\ ~document.outputs.present
     /\ \A k \in DOMAIN document.parameters.v :
            /\ document.parameters.v[k].type.present
            /\ ~document.parameters.v[k].defaultValue.present)
    => /\ template.kind = "Ok"
       /\ template.v.parameters =
              Some([k \in DOMAIN document.parameters.v |->
                       [type |-> document.parameters.v[k].type.v,
                        default_value |-> None_]])
       /\ template.v.variables = Some(<<>>)
       /\ template.v.resources = <<>>
       /\ template.v.outputs = None_

\* C10: a call with an empty argument list parses to a Function with no
\* arguments.
C10_EmptyArgumentList ==
    (Parsed /\ IsKnownCall /\ input.args = <<>>)
    => result = Ok(FunctionExpression(function_name(input.function), <<>>))
=============================================================================
